---- MODULE Spec2Model ----
(***************************************************************************)
(* Discount resolution engine of the catalog backend.                      *)
(*                                                                         *)
(* The state is the part of the database the resolver reads (campaigns,    *)
(* category discounts, product discounts, price tiers, products), the wall *)
(* clock, and the record returned by the last call of                      *)
(* DiscountManager.get_best_discount_for_price.                            *)
(*                                                                         *)
(* Money: prices and discount values are whole currency units or whole     *)
(* percent points; a computed discount_amount is carried in hundredths of  *)
(* a unit (x Hundred), so that price * (discount / 100) is exact.          *)
(* Nullable columns hold NULL (the empty tuple) or a one-element tuple.    *)
(***************************************************************************)
EXTENDS Integers, Sequences, FiniteSets, TLC

VARIABLES
    now,                \* the wall clock read by timezone.now()
    products,           \* ProductBase rows: product id -> [category_id]
    campaigns,          \* DiscountCampaign rows: campaign id -> row
    categoryDiscounts,  \* CategoryDiscount rows in Meta.ordering (-created_at)
    discounts,          \* Discount rows by primary key
    prices,             \* Price rows (tiers): price id -> row
    res,                \* the last return of get_best_discount_for_price
                        \* to a caller outside resolve_price_range
    frame,              \* the locals of the running resolve_price_range
    limiter,            \* the cache entries rate_limit keeps for the client
    requests,           \* the login requests of the client, by worker
    history,            \* what the client has been answered so far
    cache,              \* the product cache: key -> cached value
    reader,             \* the cached read in progress
    writer,             \* the last write to the catalog tables
    auth,               \* users, tokens and the token requests in progress
    webhooks            \* the rows of WebhookLog and the sends so far

vars ==
    <<now, products, campaigns, categoryDiscounts, discounts, prices, res,
      frame, limiter, requests, history, cache, reader, writer, auth,
      webhooks>>

login == <<limiter, requests, history>>

caching == <<cache, reader, writer>>

accounts == <<auth, webhooks>>

catalog == <<products, campaigns, categoryDiscounts, discounts, prices>>

----------------------------------------------------------------------------
(* Bounds and universes of the model *)

MaxTime == 1
MaxPriority == 2

Times == 0..MaxTime
Priorities == 1..MaxPriority

NULL == <<>>
OptTimes == {NULL} \cup {<<t>> : t \in Times}

Products == {1, 2}
Categories == {1, 2}
CampaignIds == {1, 2}
PriceIds == {1, 2}

DiscountTypes == {"Amount", "Percentaje"}
CampaignTypes == {"global", "category", "products"}

\* discount values: negative, zero, below/above the prices, above 100 percent
DiscountValues == {-5, 0, 25, 150}
PriceValues == {0, 8, 200}

Hundred == 100

----------------------------------------------------------------------------
(* Arithmetic *)

Min(a, b) == IF a <= b THEN a ELSE b

\* Python round() of the Decimal n/d (d > 0): nearest integer, ties to even
RoundHalfEven(n, d) ==
    LET q == n \div d
        r == n % d
    IN  IF 2 * r < d THEN q
        ELSE IF 2 * r > d THEN q + 1
        ELSE IF q % 2 = 0 THEN q ELSE q + 1

\* price * (discount / 100), in hundredths
PercentAmount(price, discount) == price * discount

\* mutation of ClampedAmount: the fixed amount is not capped by the price
UnclampedAmount(price, discount) == Hundred * discount

\* min(discount, price), in hundredths
ClampedAmount(price, discount) == Hundred * Min(discount, price)

----------------------------------------------------------------------------
(* Rows *)

\* DiscountCampaign: start_date and expiration_date are required columns
Campaign(a, s, e, p, ty, cats, prods, d, dt) ==
    [is_active |-> a, start_date |-> s, expiration_date |-> e, priority |-> p,
     campaign_type |-> ty, categories |-> cats, products |-> prods,
     discount |-> d, discount_type |-> dt]

\* CategoryDiscount: start_date and expiration_date are nullable
CategoryDiscount(c, a, s, e, d, dt) ==
    [category |-> c, is_active |-> a, start_date |-> s, expiration_date |-> e,
     discount |-> d, discount_type |-> dt]

\* Discount (product discount): discount, start_date, expiration_date nullable
Discount(p, d, dt, s, e) ==
    [product |-> p, discount |-> d, discount_type |-> dt,
     start_date |-> s, expiration_date |-> e]

\* Price (tier): discount is nullable; the unit is 'Unidad' unless WithUnit
\* sets another
Price(p, pr, d, dt, q) ==
    [product |-> p, price |-> pr, discount |-> d, discount_type |-> dt,
     quantity |-> q, unit |-> "Unidad"]

WithUnit(row, u) == [row EXCEPT !.unit = u]

----------------------------------------------------------------------------
(* DiscountCampaign *)

\* DiscountCampaign.is_currently_active, with t the clock reading it takes
campaign_is_currently_active(c, t) ==
    c.is_active /\ c.start_date <= t /\ t <= c.expiration_date

\* mutation of applies_to_product: the scope of the campaign is not looked at
applies_to_product_any_scope(c, product, t) ==
    campaign_is_currently_active(c, t)

applies_to_product(c, product, t) ==
    IF ~campaign_is_currently_active(c, t) THEN FALSE
    ELSE IF c.campaign_type = "global" THEN TRUE
    ELSE IF c.campaign_type = "category"
         THEN products[product].category_id \in c.categories
    ELSE IF c.campaign_type = "products" THEN product \in c.products
    ELSE FALSE

calculate_discount(c, price) ==
    IF c.discount_type = "Percentaje"
    THEN PercentAmount(price, c.discount)
    ELSE ClampedAmount(price, c.discount)

(* CategoryDiscount *)

\* mutation of category_discount_is_currently_active: the expiration date is
\* not looked at
category_discount_active_no_expiry(cd, t) ==
    IF ~cd.is_active THEN FALSE
    ELSE IF cd.start_date # NULL /\ cd.start_date[1] > t THEN FALSE
    ELSE TRUE

category_discount_is_currently_active(cd, t) ==
    IF ~cd.is_active THEN FALSE
    ELSE IF cd.start_date # NULL /\ cd.start_date[1] > t THEN FALSE
    ELSE IF cd.expiration_date # NULL /\ cd.expiration_date[1] < t THEN FALSE
    ELSE TRUE

----------------------------------------------------------------------------
(* The queries of get_best_discount_for_price. Each yields the set of rows *)
(* the database may hand back as .first(): NULL, or <<key>> of a row.      *)

\* filter(is_active, start_date <= t1, expiration_date >= t2)
\*   .order_by('-priority').first()
\* order_by replaces Meta.ordering, so rows tied on priority come back in an
\* order the database does not fix.
CampaignQueryFirst(t1, t2) ==
    LET act == {c \in CampaignIds :
                    /\ campaigns[c].is_active
                    /\ campaigns[c].start_date <= t1
                    /\ campaigns[c].expiration_date >= t2}
    IN  IF act = {} THEN {NULL}
        ELSE {<<c>> : c \in {x \in act : \A y \in act :
                                 campaigns[y].priority <= campaigns[x].priority}}

\* filter(category=..., is_active=True).first(), in Meta.ordering -created_at
\* (created_at is auto_now_add: the rows are taken to differ on it)
CategoryDiscountQueryFirst(category) ==
    LET hit == {i \in DOMAIN categoryDiscounts :
                    /\ categoryDiscounts[i].category = category
                    /\ categoryDiscounts[i].is_active}
    IN  IF hit = {} THEN {NULL}
        ELSE {<<i>> : i \in {x \in hit : \A y \in hit : x <= y}}

\* product.product_base_discounts.filter(discount__gt=0).first(), in
\* Meta.ordering -start_date: rows tied on start_date come in any order, and
\* NULL start dates sort first or last depending on the database backend.
ProductDiscountQueryFirst(product) ==
    LET hit    == {i \in DOMAIN discounts :
                      /\ discounts[i].product = product
                      /\ discounts[i].discount # NULL
                      /\ discounts[i].discount[1] > 0}
        undated == {i \in hit : discounts[i].start_date = NULL}
        dated  == hit \ undated
        latest == {x \in dated : \A y \in dated :
                      discounts[y].start_date[1] <= discounts[x].start_date[1]}
    IN  IF hit = {} THEN {NULL}
        ELSE {<<i>> : i \in (IF undated # {} THEN undated ELSE latest)
                         \cup (IF dated # {} THEN latest ELSE undated)}

----------------------------------------------------------------------------
(* DiscountManager.get_best_discount_for_price *)

\* mutation of level_discount_amount: min(discount, original_price) is
\* replaced by the discount
level_discount_amount_no_min(discount_type, discount, price) ==
    IF discount_type = "Percentaje"
    THEN PercentAmount(price, discount)
    ELSE Hundred * discount

\* the Percentaje / Amount branch the category, product and price levels repeat
level_discount_amount(discount_type, discount, price) ==
    IF discount_type = "Percentaje"
    THEN PercentAmount(price, discount)
    ELSE ClampedAmount(price, discount)

\* round((discount_amount / original_price) * 100)
discount_percentage(amount, price) == RoundHalfEven(amount, price)

NoRes == [status |-> "idle"]

\* a level returns its dict; building it divides by original_price, and the
\* Decimal division raises (DivisionByZero, InvalidOperation) when that is 0;
\* the record of a raise keeps the rule whose dict was being built
LevelReturn(k, r, ac, amount, source, name, object) ==
    IF prices[k].price = 0
    THEN [status |-> "raised", price_id |-> k,
          now_first |-> r[1], now_last |-> r[5], active_campaign |-> ac,
          discount_object |-> object]
    ELSE [status |-> "ok", price_id |-> k,
          now_first |-> r[1], now_last |-> r[5], active_campaign |-> ac,
          discount_amount |-> amount,
          discount_percentage |-> discount_percentage(amount, prices[k].price),
          discount_source |-> source,
          discount_name |-> name,
          has_discount |-> TRUE,
          discount_object |-> object]

NoDiscountReturn(k, r, ac) ==
    [status |-> "ok", price_id |-> k,
     now_first |-> r[1], now_last |-> r[5], active_campaign |-> ac,
     discount_amount |-> 0,
     discount_percentage |-> 0,
     discount_source |-> "none",
     discount_name |-> NULL,
     has_discount |-> FALSE,
     discount_object |-> NULL]

\* level 1: the campaign the query returned, if it applies to the product
CampaignLevelApplies(k, r, ac) ==
    /\ ac # NULL
    /\ applies_to_product(campaigns[ac[1]], prices[k].product, r[3])

\* level 2: the category discount the query returned, if currently active
CategoryLevelApplies(k, r, cd) ==
    /\ cd # NULL
    /\ category_discount_is_currently_active(categoryDiscounts[cd[1]], r[4])

\* level 3: the product discount the query returned, unless a date it has
\* puts now outside of its window
ProductLevelApplies(k, r, pd) ==
    /\ pd # NULL
    /\ ~(/\ discounts[pd[1]].start_date # NULL
         /\ discounts[pd[1]].start_date[1] > r[5])
    /\ ~(/\ discounts[pd[1]].expiration_date # NULL
         /\ discounts[pd[1]].expiration_date[1] < r[5])

\* mutation of PriceLevelApplies: "is not None" in place of the truth value
PriceLevelAppliesNotNone(k) == prices[k].discount # NULL

\* level 4: "if price_obj.discount:", the truth value of an optional Decimal
PriceLevelApplies(k) ==
    /\ prices[k].discount # NULL
    /\ prices[k].discount[1] # 0

\* k: the Price row; r: the five clock readings (two in the campaign filter,
\* then applies_to_product, CategoryDiscount.is_currently_active, and the
\* product level); ac, pd: the rows the campaign and product-discount queries
\* handed back
get_best_discount_for_price(k, r, ac, pd) ==
    LET product == prices[k].product
        original_price == prices[k].price
        cd == CHOOSE x \in CategoryDiscountQueryFirst(
                               products[product].category_id) : TRUE
    IN  IF CampaignLevelApplies(k, r, ac)
        THEN LevelReturn(k, r, ac,
                 calculate_discount(campaigns[ac[1]], original_price),
                 "campaign", <<"campaign", ac[1]>>, <<"campaign", ac[1]>>)
        ELSE IF CategoryLevelApplies(k, r, cd)
        THEN LevelReturn(k, r, ac,
                 level_discount_amount(categoryDiscounts[cd[1]].discount_type,
                     categoryDiscounts[cd[1]].discount, original_price),
                 "category",
                 <<"category", products[product].category_id>>,
                 <<"category_discount", cd[1]>>)
        ELSE IF ProductLevelApplies(k, r, pd)
        THEN LevelReturn(k, r, ac,
                 level_discount_amount(discounts[pd[1]].discount_type,
                     discounts[pd[1]].discount[1], original_price),
                 "product", <<"product", product>>, <<"discount", pd[1]>>)
        ELSE IF PriceLevelApplies(k)
        THEN LevelReturn(k, r, ac,
                 level_discount_amount(prices[k].discount_type,
                     prices[k].discount[1], original_price),
                 "price", <<"quantity", prices[k].quantity>>, <<"price", k>>)
        ELSE NoDiscountReturn(k, r, ac)

----------------------------------------------------------------------------
(* Price: the operations derived from a resolution (get_discount_info) *)

percentaje_discount(info) ==
    IF info.has_discount THEN <<info.discount_percentage>> ELSE NULL

\* in hundredths, like discount_amount
price_new(k, info) == Hundred * prices[k].price - info.discount_amount

price_old(k, info) ==
    IF info.has_discount THEN <<prices[k].price>> ELSE NULL

has_discount(info) == info.has_discount

\* UNIT_PLURAL
UNIT_PLURAL ==
    [u \in {"Unidad", "Docena", "Caja", "Paquete", "Kilogramo", "Metro",
            "Litro"} |->
        CASE u = "Unidad" -> "Unidades"
          [] u = "Docena" -> "Docenas"
          [] u = "Caja" -> "Cajas"
          [] u = "Paquete" -> "Paquetes"
          [] u = "Kilogramo" -> "Kilogramos"
          [] u = "Metro" -> "Metros"
          [] u = "Litro" -> "Litros"]

\* mutation of get_unit_display_smart: the singular is kept up to quantity 1
get_unit_display_up_to_one(row) ==
    IF row.quantity <= 1 THEN row.unit
    ELSE IF row.unit \in DOMAIN UNIT_PLURAL THEN UNIT_PLURAL[row.unit]
    ELSE row.unit \o "s"

\* UNIT_PLURAL.get(self.unit, self.unit + 's') unless quantity == 1
get_unit_display_smart(row) ==
    IF row.quantity = 1 THEN row.unit
    ELSE IF row.unit \in DOMAIN UNIT_PLURAL THEN UNIT_PLURAL[row.unit]
    ELSE row.unit \o "s"

\* no resolve_price_range is running
NoFrame == [pc |-> "idle"]

\* no login request has been made
Workers == {1, 2}

NoLimiter == [attempts |-> NULL, blocked |-> NULL]

NoRequests == [w \in Workers |-> [pc |-> "idle", status |-> 0]]

NoHistory == [served |-> 0, rejected |-> NULL]

LoginIdle ==
    /\ limiter = NoLimiter
    /\ requests = NoRequests
    /\ history = NoHistory

\* nothing is cached, no read is in progress, nothing has been written
NoCache == [key \in {} |-> key]

NoReader == [pc |-> "idle", reads |-> 0]

NoWriter == [pc |-> "idle", writes |-> 0]

CacheIdle ==
    /\ cache = NoCache
    /\ reader = NoReader
    /\ writer = NoWriter

\* the account as registered: the password never reset, two-factor set up but
\* not enabled, one backup code left
NoUser ==
    [is_active |-> TRUE, last_password_reset |-> NULL,
     is_enabled |-> FALSE, backup_codes |-> {"BACKUP"}]

\* no token issued or revoked, no request served or in progress
NoAuth ==
    [user |-> NoUser, issued |-> {}, blacklist |-> {},
     procs |-> [w \in Workers |-> [pc |-> "idle"]],
     yields |-> [t \in {} |-> 0], loggedout |-> {}, stale |-> {},
     last |-> [op |-> "none"], served |-> 0]

\* no event delivered yet
NoWebhooks == [logs |-> <<>>, sends |-> 0]

AccountsIdle ==
    /\ auth = NoAuth
    /\ webhooks = NoWebhooks

----------------------------------------------------------------------------
(* Initial states: the rows the catalog administrators have stored.  The   *)
(* engine never writes them.  Each family varies the rows of one cascade   *)
(* level over every combination of its columns and keeps the other levels  *)
(* to a few rows.                                                          *)

\* product 1 is in category 1, product 2 in category 2; both are published
\* and have their own slug
ProductRows ==
    [p \in Products |->
        [category_id |-> p, slug |-> <<"slug", p>>, published |-> TRUE]]

\* (campaign_type, categories, products)
Scopes ==
    {<<"global", {}, {}>>,
     <<"category", {1}, {}>>, <<"category", {2}, {1}>>,
     <<"products", {}, {1}>>, <<"products", {1}, {2}>>}

InactiveCampaign ==
    Campaign(FALSE, 0, MaxTime, 1, "global", {}, {}, 25, "Percentaje")

NoCampaigns == <<InactiveCampaign, InactiveCampaign>>

\* the second tier belongs to the other product and has no inline discount
OtherTier == Price(2, 200, NULL, "Amount", 500)

InlineDiscounts == {NULL, <<5>>}

\* campaigns: activity, window, priority and scope of the first campaign
\* against a global campaign that is active from 0 or 1 on
InitCampaignFamily ==
    /\ campaigns \in
         {<<Campaign(a, s, e, p, sc[1], sc[2], sc[3], 25, "Percentaje"),
            Campaign(TRUE, s2, MaxTime, p2, "global", {}, {}, 50, "Amount")>> :
             a \in BOOLEAN, s \in Times, e \in Times, p \in Priorities,
             sc \in Scopes, s2 \in {0, 1}, p2 \in Priorities}
    /\ categoryDiscounts \in
         {<<>>, <<CategoryDiscount(1, TRUE, NULL, NULL, 10, "Amount")>>}
    /\ discounts = <<>>
    /\ prices \in {<<Price(1, 8, d, "Amount", 100), OtherTier>> :
                      d \in InlineDiscounts}

\* category discounts: the newest row over every category, flag and window,
\* alone or in front of an older row
InitCategoryFamily ==
    /\ campaigns \in
         {NoCampaigns,
          <<Campaign(TRUE, 0, MaxTime, 1, "category", {2}, {}, 25, "Percentaje"),
            InactiveCampaign>>}
    /\ categoryDiscounts \in
         {<<>>}
         \cup {<<CategoryDiscount(c, a, s, e, 10, "Amount")>> \o older :
                 c \in Categories, a \in BOOLEAN, s \in OptTimes, e \in OptTimes,
                 older \in {<<>>,
                     <<CategoryDiscount(1, TRUE, NULL, NULL, 25, "Percentaje")>>,
                     <<CategoryDiscount(1, TRUE, <<1>>, <<1>>, 25, "Percentaje")>>}}
    /\ discounts \in {<<>>, <<Discount(1, <<3>>, "Amount", NULL, NULL)>>}
    /\ prices \in {<<Price(1, 8, d, "Amount", 100), OtherTier>> :
                      d \in InlineDiscounts}

\* product discounts: one row over every product, value and window, alone or
\* followed by a second row of product 1
InitProductFamily ==
    /\ campaigns = NoCampaigns
    /\ categoryDiscounts = <<>>
    /\ discounts \in
         {<<>>}
         \cup {<<Discount(p, d, "Amount", s, e)>> \o second :
                 p \in Products, d \in {NULL, <<0>>, <<-5>>, <<3>>},
                 s \in OptTimes, e \in OptTimes,
                 second \in {<<>>,
                     <<Discount(1, <<25>>, "Percentaje", NULL, NULL)>>,
                     <<Discount(1, <<25>>, "Percentaje", <<0>>, <<MaxTime>>)>>,
                     <<Discount(1, <<25>>, "Percentaje", <<1>>, <<1>>)>>}}
    /\ prices \in {<<Price(1, 8, d, "Amount", 100), OtherTier>> :
                      d \in InlineDiscounts}

\* values: one rule of any value and kind at one level, always in its
\* window, over every price, with or without an inline discount below it
InitValueFamily ==
    \E v \in DiscountValues, dt \in DiscountTypes, pr \in PriceValues :
        \/ /\ campaigns = <<Campaign(TRUE, 0, MaxTime, 1, "global", {}, {}, v, dt),
                            InactiveCampaign>>
           /\ categoryDiscounts = <<>>
           /\ discounts = <<>>
           /\ prices \in {<<Price(1, pr, d, "Amount", 100), OtherTier>> :
                             d \in InlineDiscounts}
        \/ /\ campaigns = NoCampaigns
           /\ categoryDiscounts = <<CategoryDiscount(1, TRUE, NULL, NULL, v, dt)>>
           /\ discounts = <<>>
           /\ prices \in {<<Price(1, pr, d, "Amount", 100), OtherTier>> :
                             d \in InlineDiscounts}
        \/ /\ campaigns = NoCampaigns
           /\ categoryDiscounts = <<>>
           /\ discounts = <<Discount(1, <<v>>, dt, NULL, NULL)>>
           /\ prices \in {<<Price(1, pr, d, "Amount", 100), OtherTier>> :
                             d \in InlineDiscounts}
        \/ /\ campaigns = NoCampaigns
           /\ categoryDiscounts = <<>>
           /\ discounts = <<>>
           /\ prices \in {<<Price(1, pr, d, dt, 100), OtherTier>> :
                             d \in {NULL, <<v>>}}

Init ==
    /\ now = 0
    /\ products = ProductRows
    /\ res = NoRes
    /\ frame = NoFrame
    /\ LoginIdle
    /\ CacheIdle
    /\ AccountsIdle
    /\ \/ InitCategoryFamily
       \/ InitProductFamily
       \/ InitCampaignFamily
       \/ InitValueFamily

----------------------------------------------------------------------------
(* Actions *)

\* the wall clock advances
Tick ==
    /\ now < MaxTime
    /\ now' = now + 1
    /\ UNCHANGED <<catalog, res, frame, login, caching, accounts>>

\* the nondecreasing runs of five clock readings
AllReadings ==
    {r \in [1..5 -> Times] : \A i \in 1..4 : r[i] <= r[i + 1]}

\* one call of get_best_discount_for_price on the Price row k (reached from
\* Price.get_discount_info), begun now: the clock may advance between its
\* readings
Resolve(k) ==
    \E r \in {x \in AllReadings : x[1] = now} :
        \E ac \in CampaignQueryFirst(r[1], r[2]),
           pd \in ProductDiscountQueryFirst(prices[k].product) :
            /\ res' = get_best_discount_for_price(k, r, ac, pd)
            /\ now' = r[5]
            /\ UNCHANGED <<catalog, frame, login, caching, accounts>>

Next ==
    \/ Tick
    \/ \E k \in PriceIds : Resolve(k)

Spec == Init /\ [][Next]_vars

----------------------------------------------------------------------------
(* resolve_price_range of ProductBaseOut and ProductBaseListOut.  The two   *)
(* make the same calls in the same order and differ in the dict they build  *)
(* at the end.  Every Price method they call is one more call of            *)
(* get_best_discount_for_price with clock readings of its own, so the call  *)
(* is a process: frame holds its locals and its position, one step is one   *)
(* Price method call, and the clock may advance between the steps.          *)
(* Money in the locals and in the summary is in hundredths.                 *)

SeqRange(s) == {s[i] : i \in DOMAIN s}

MinOf(S) == CHOOSE x \in S : \A y \in S : x <= y

MaxOf(S) == CHOOSE x \in S : \A y \in S : y <= x

\* str() of a Decimal and isoformat() of a datetime: the text of the value
Str(x) == <<"str", x>>

IsoFormat(t) == <<"iso", t>>

\* the positions a running resolve_price_range can be at: the list of
\* price_new(), any(has_discount()), the condition and the element of the
\* discount_percentages and savings_list comprehensions, next(... if
\* has_discount()), and the final get_discount_info()
Phases ==
    {"price_new", "any", "pct_if", "pct_val", "sav_if", "sav_val", "first",
     "info"}

TiersOf(p) == {k \in DOMAIN prices : prices[k].product = p}

\* obj.product_base_prices.all(): the tiers of product p in Meta.ordering
\* (quantity); tiers tied on quantity come in an order the database picks
TierOrders(p) ==
    {ts \in [1..Cardinality(TiersOf(p)) -> TiersOf(p)] :
        /\ \A i, j \in DOMAIN ts : i # j => ts[i] # ts[j]
        /\ \A i, j \in DOMAIN ts :
               i < j => prices[ts[i]].quantity <= prices[ts[j]].quantity}

\* "if not prices: return None", else the locals before the first call
StartFrame(p, ts) ==
    IF ts = <<>>
    THEN [pc |-> "none", product |-> p]
    ELSE [pc |-> "price_new", product |-> p, prices |-> ts, i |-> 1,
          now_first |-> now, now_last |-> now,
          price_new_values |-> <<>>,
          has_discount |-> FALSE,
          discount_percentages |-> <<>>,
          savings_list |-> <<>>,
          campaign_name |-> NULL,
          discount_expires_at |-> NULL]

\* an exception leaves resolve_price_range
RaisedFrame(f) == [pc |-> "raised", product |-> f.product, prices |-> f.prices]

\* max() and min() of discount_percentages compare its elements: a None
\* among two or more elements raises TypeError.  (ProductBaseOut gets there
\* after the savings_list calls, ProductBaseListOut before them.)
PercentagesRaise(f) ==
    /\ Len(f.discount_percentages) >= 2
    /\ \E i \in DOMAIN f.discount_percentages : f.discount_percentages[i] = NULL

\* the position after the last tier of a phase
Enter(f, phase) ==
    IF phase = "done" THEN [f EXCEPT !.pc = "done", !.i = 0]
    ELSE IF phase = "first" /\ PercentagesRaise(f) THEN RaisedFrame(f)
    ELSE [f EXCEPT !.pc = phase, !.i = 1]

\* on to the next tier in phase same, or into phase after when none is left
Advance(f, same, after) ==
    IF f.i < Len(f.prices)
    THEN [f EXCEPT !.pc = same, !.i = f.i + 1]
    ELSE Enter(f, after)

\* discount_obj.expiration_date when there is an object and it has the
\* attribute: a Price has none
expiration_date_of(object) ==
    IF object = NULL THEN NULL
    ELSE IF object[1] = "campaign"
    THEN <<campaigns[object[2]].expiration_date>>
    ELSE IF object[1] = "category_discount"
    THEN categoryDiscounts[object[2]].expiration_date
    ELSE IF object[1] = "discount"
    THEN discounts[object[2]].expiration_date
    ELSE NULL

\* the locals after the Price method call of position f.pc on tier k has
\* resolved to info; now_first and now_last keep the first and the last
\* clock reading of the whole call
AfterCallAt(f, k, info) ==
    IF info.status = "raised" THEN RaisedFrame(f)
    ELSE IF f.pc = "price_new"
    THEN Advance([f EXCEPT !.price_new_values = Append(@, price_new(k, info))],
                 "price_new", "any")
    ELSE IF f.pc = "any"
    THEN IF has_discount(info)
         THEN [f EXCEPT !.has_discount = TRUE, !.pc = "pct_if", !.i = 1]
         ELSE Advance(f, "any", "done")
    ELSE IF f.pc = "pct_if"
    THEN IF percentaje_discount(info) # NULL
         THEN [f EXCEPT !.pc = "pct_val"]
         ELSE Advance(f, "pct_if", "sav_if")
    ELSE IF f.pc = "pct_val"
    THEN Advance([f EXCEPT !.discount_percentages =
                               Append(@, percentaje_discount(info))],
                 "pct_if", "sav_if")
    ELSE IF f.pc = "sav_if"
    THEN IF has_discount(info)
         THEN [f EXCEPT !.pc = "sav_val"]
         ELSE Advance(f, "sav_if", "first")
    ELSE IF f.pc = "sav_val"
    THEN Advance([f EXCEPT !.savings_list =
                     Append(@, Hundred * prices[k].price - price_new(k, info))],
                 "sav_if", "first")
    ELSE IF f.pc = "first"
    THEN IF has_discount(info)
         THEN [f EXCEPT !.pc = "info"]
         ELSE Advance(f, "first", "done")
    ELSE Enter([f EXCEPT !.campaign_name = info.discount_name,
                         !.discount_expires_at =
                             expiration_date_of(info.discount_object)],
               "done")

AfterCall(f, k, info) ==
    AfterCallAt([f EXCEPT !.now_last = info.now_last], k, info)

\* mutation of LastWith: the loop keeps its last tier whatever the price
LastTier(ts, v) == ts[Len(ts)]

\* the tier the loop over prices leaves in min_* (max_*): the last one whose
\* price is v
LastWith(ts, v) ==
    ts[CHOOSE i \in DOMAIN ts :
           /\ prices[ts[i]].price = v
           /\ \A j \in DOMAIN ts : j > i => prices[ts[j]].price # v]

\* the keys both schemas always put in the dict
result_common(f) ==
    LET price_values == {prices[k].price : k \in SeqRange(f.prices)}
        min_price == MinOf(price_values)
        max_price == MaxOf(price_values)
        lo == prices[LastWith(f.prices, min_price)]
        hi == prices[LastWith(f.prices, max_price)]
    IN  [min |-> Str(Hundred * min_price),
         max |-> Str(Hundred * max_price),
         min_cantity |-> lo.quantity,
         min_unit |-> lo.unit,
         min_unit_smart |-> get_unit_display_smart(lo),
         max_cantity |-> hi.quantity,
         max_unit |-> hi.unit,
         max_unit_smart |-> get_unit_display_smart(hi),
         min_discounted |-> Str(MinOf(SeqRange(f.price_new_values))),
         max_discounted |-> Str(MaxOf(SeqRange(f.price_new_values))),
         has_discount |-> f.has_discount]

NoKeys == [x \in {} |-> x]

\* max() (min()) of discount_percentages: of one element it is that element,
\* which may be None
max_discount(f) ==
    IF Len(f.discount_percentages) = 1 THEN f.discount_percentages[1]
    ELSE <<MaxOf({x[1] : x \in SeqRange(f.discount_percentages)})>>

min_discount(f) ==
    IF Len(f.discount_percentages) = 1 THEN f.discount_percentages[1]
    ELSE <<MinOf({x[1] : x \in SeqRange(f.discount_percentages)})>>

expires_text(f) ==
    IF f.discount_expires_at # NULL
    THEN IsoFormat(f.discount_expires_at[1]) ELSE NULL

\* what ProductBaseOut.resolve_price_range returns from the locals f
ProductBaseOut_price_range(f) ==
    IF f.pc = "none" THEN NULL
    ELSE IF ~f.has_discount THEN result_common(f)
    ELSE result_common(f)
         @@ (IF f.discount_percentages # <<>>
             THEN [max_discount_percentage |-> max_discount(f),
                   min_discount_percentage |-> min_discount(f)]
             ELSE NoKeys)
         @@ (IF f.savings_list # <<>>
             THEN [max_savings |-> Str(MaxOf(SeqRange(f.savings_list))),
                   min_savings |-> Str(MinOf(SeqRange(f.savings_list)))]
             ELSE NoKeys)
         @@ [campaign_name |-> f.campaign_name,
             discount_expires_at |-> expires_text(f)]

\* what ProductBaseListOut.resolve_price_range returns from the locals f
ProductBaseListOut_price_range(f) ==
    IF f.pc = "none" THEN NULL
    ELSE IF ~f.has_discount THEN result_common(f)
    ELSE result_common(f)
         @@ [max_discount_percentage |->
                 IF f.discount_percentages # <<>>
                 THEN max_discount(f) ELSE <<0>>,
             max_savings |->
                 Str(IF f.savings_list # <<>>
                     THEN MaxOf(SeqRange(f.savings_list)) ELSE 0),
             min_savings |->
                 Str(IF f.savings_list # <<>>
                     THEN MinOf(SeqRange(f.savings_list)) ELSE 0),
             campaign_name |-> f.campaign_name,
             discount_expires_at |-> expires_text(f)]

\* resolve_price_range is called on product obj: the tiers are fetched
resolve_price_range(obj) ==
    /\ frame.pc = "idle"
    /\ \E ts \in TierOrders(obj) : frame' = StartFrame(obj, ts)
    /\ UNCHANGED <<now, catalog, res, login, caching, accounts>>

\* the running resolve_price_range makes its next Price method call
PriceMethodCall ==
    /\ frame.pc \in Phases
    /\ LET k == frame.prices[frame.i]
       IN  \E r \in {x \in AllReadings : x[1] = now} :
               \E ac \in CampaignQueryFirst(r[1], r[2]),
                  pd \in ProductDiscountQueryFirst(prices[k].product) :
                   /\ frame' = AfterCall(frame, k,
                                   get_best_discount_for_price(k, r, ac, pd))
                   /\ now' = r[5]
                   /\ UNCHANGED <<catalog, res, login, caching, accounts>>

(* Initial states of the price-range summaries: product 1 has one to three *)
(* tiers, product 2 has none.                                              *)

\* a mapped unit ending in a consonant, two ending in a vowel, an unmapped one
Units == {"Unidad", "Docena", "Caja", "Par"}

\* one global campaign over every window, of 25 percent or of amount 0
RangeCampaigns ==
    {NoCampaigns}
    \cup {<<Campaign(TRUE, s, e, 1, "global", {}, {}, v[1], v[2]),
            InactiveCampaign>> :
              s \in Times, e \in Times,
              v \in {<<25, "Percentaje">>, <<0, "Amount">>}}

\* one tier over every unit and the quantities around 1, no rule but inline
InitRangeUnits ==
    /\ campaigns = NoCampaigns
    /\ categoryDiscounts = <<>>
    /\ discounts = <<>>
    /\ prices \in {<<WithUnit(Price(1, 8, d, "Amount", q), u)>> :
                      d \in InlineDiscounts, q \in {0, 1, 2}, u \in Units}

\* two tiers over prices, quantities (ascending, descending, tied) and
\* inline discounts, under no rule, a campaign that ends at 0 or a category
\* discount that ends at 0
InitRangeMix ==
    /\ campaigns \in
         {NoCampaigns,
          <<Campaign(TRUE, 0, 0, 1, "global", {}, {}, 25, "Percentaje"),
            InactiveCampaign>>}
    /\ categoryDiscounts \in
         {<<>>, <<CategoryDiscount(1, TRUE, NULL, <<0>>, 10, "Amount")>>}
    /\ discounts = <<>>
    /\ prices \in
         {<<WithUnit(Price(1, p1, d1, "Amount", q[1]), "Docena"),
            Price(1, p2, d2, "Percentaje", q[2])>> :
              p1 \in {8, 25}, p2 \in {8, 25},
              d1 \in {NULL, <<5>>}, d2 \in {NULL, <<50>>},
              q \in {<<50, 100>>, <<100, 50>>, <<50, 50>>}}

\* three tiers stored out of quantity order, under every campaign window,
\* with or without a product discount that starts at 1
InitRangeWindows ==
    /\ campaigns \in RangeCampaigns
    /\ categoryDiscounts = <<>>
    /\ discounts \in {<<>>, <<Discount(1, <<3>>, "Amount", <<1>>, NULL)>>}
    /\ prices \in
         {<<Price(1, 10, NULL, "Amount", 100),
            Price(1, 25, d, "Amount", 500),
            WithUnit(Price(1, 8, NULL, "Amount", 50), "Caja")>> :
              d \in InlineDiscounts}

\* a tier of price 0 next to a priced one
InitRangeZero ==
    /\ campaigns \in
         {NoCampaigns,
          <<Campaign(TRUE, 0, MaxTime, 1, "global", {}, {}, 25, "Percentaje"),
            InactiveCampaign>>}
    /\ categoryDiscounts = <<>>
    /\ discounts = <<>>
    /\ prices \in {<<Price(1, 0, d, "Amount", 1), Price(1, 8, NULL, "Amount", 2)>> :
                      d \in InlineDiscounts}

InitRange ==
    /\ now = 0
    /\ products = ProductRows
    /\ res = NoRes
    /\ frame = NoFrame
    /\ LoginIdle
    /\ CacheIdle
    /\ AccountsIdle
    /\ \/ InitRangeUnits
       \/ InitRangeMix
       \/ InitRangeWindows
       \/ InitRangeZero

NextRange ==
    \/ Tick
    \/ \E obj \in Products : resolve_price_range(obj)
    \/ PriceMethodCall

SpecRange == InitRange /\ [][NextRange]_vars

----------------------------------------------------------------------------
(* Vocabulary of the properties *)

\* the last call returned a resolution record
Returned == res.status = "ok"

\* every clock reading of the last call gave the same instant
AtOneInstant == res.now_first = res.now_last

ResProduct == prices[res.price_id].product
ResCategory == products[ResProduct].category_id
ResPrice == prices[res.price_id].price

\* the rows that are in force for product p at instant t, level by level
CampaignsInForce(p, t) ==
    {c \in CampaignIds : applies_to_product(campaigns[c], p, t)}

CategoryDiscountsInForce(p, t) ==
    {i \in DOMAIN categoryDiscounts :
        /\ categoryDiscounts[i].category = products[p].category_id
        /\ category_discount_is_currently_active(categoryDiscounts[i], t)}

ProductDiscountsInForce(p, t) ==
    {i \in DOMAIN discounts :
        /\ discounts[i].product = p
        /\ discounts[i].discount # NULL
        /\ discounts[i].discount[1] > 0
        /\ (discounts[i].start_date = NULL \/ discounts[i].start_date[1] <= t)
        /\ (discounts[i].expiration_date = NULL
               \/ t <= discounts[i].expiration_date[1])}

InlineInForce(k) ==
    prices[k].discount # NULL /\ prices[k].discount[1] > 0

LevelsInForce(k, t) ==
    (IF CampaignsInForce(prices[k].product, t) # {} THEN {"campaign"} ELSE {})
    \cup (IF CategoryDiscountsInForce(prices[k].product, t) # {}
          THEN {"category"} ELSE {})
    \cup (IF ProductDiscountsInForce(prices[k].product, t) # {}
          THEN {"product"} ELSE {})
    \cup (IF InlineInForce(k) THEN {"price"} ELSE {})

EarliestLevel(levels) ==
    IF "campaign" \in levels THEN "campaign"
    ELSE IF "category" \in levels THEN "category"
    ELSE IF "product" \in levels THEN "product"
    ELSE IF "price" \in levels THEN "price"
    ELSE "none"

\* value and kind of the rule a resolution names in discount_object
WinningValue ==
    IF res.discount_object[1] = "campaign"
    THEN campaigns[res.discount_object[2]].discount
    ELSE IF res.discount_object[1] = "category_discount"
    THEN categoryDiscounts[res.discount_object[2]].discount
    ELSE IF res.discount_object[1] = "discount"
    THEN discounts[res.discount_object[2]].discount[1]
    ELSE prices[res.discount_object[2]].discount[1]

WinningType ==
    IF res.discount_object[1] = "campaign"
    THEN campaigns[res.discount_object[2]].discount_type
    ELSE IF res.discount_object[1] = "category_discount"
    THEN categoryDiscounts[res.discount_object[2]].discount_type
    ELSE IF res.discount_object[1] = "discount"
    THEN discounts[res.discount_object[2]].discount_type
    ELSE prices[res.discount_object[2]].discount_type

----------------------------------------------------------------------------
(* C1 *)

\* C1: when rules are in force at more than one cascade level at the instant
\* of the call, the resolution names the earliest such level in the order
\* campaign < category < product < price.
C1_PriorityOrder ==
    (/\ Returned
     /\ AtOneInstant
     /\ Cardinality(LevelsInForce(res.price_id, res.now_first)) >= 2)
    => res.discount_source =
           EarliestLevel(LevelsInForce(res.price_id, res.now_first))

----------------------------------------------------------------------------
(* C2 *)

----------------------------------------------------------------------------
(* C3 *)

\* C3: a resolution whose source is a campaign names a campaign whose scope
\* covers the product: a 'category' campaign lists the product's category,
\* a 'products' campaign lists the product.
C3_CampaignScope ==
    (Returned /\ res.discount_source = "campaign") =>
        LET c == campaigns[res.discount_object[2]]
        IN  /\ c.campaign_type = "category" => ResCategory \in c.categories
            /\ c.campaign_type = "products" => ResProduct \in c.products

\* the campaign the query handed back was in its window at the instant of
\* the call and of top priority, scoped to other categories, and the
\* resolution did not come from a campaign
C3_Witness ==
    /\ Returned
    /\ AtOneInstant
    /\ res.active_campaign # NULL
    /\ LET c == campaigns[res.active_campaign[1]]
       IN  /\ campaign_is_currently_active(c, res.now_first)
           /\ \A d \in CampaignIds :
                  campaign_is_currently_active(campaigns[d], res.now_first)
                      => campaigns[d].priority <= c.priority
           /\ c.campaign_type = "category"
           /\ c.categories # {}
           /\ ResCategory \notin c.categories
    /\ res.discount_source # "campaign"

----------------------------------------------------------------------------
(* C4 *)

\* no campaign is flagged active with a window that meets the call
NoActiveCampaign ==
    \A c \in CampaignIds :
        \A t \in res.now_first..res.now_last :
            ~campaign_is_currently_active(campaigns[c], t)

\* the tier of the last call has no rule at any level: no active campaign,
\* no category discount row for its category, no product discount row for
\* its product, and an inline discount that is absent or zero
NoRuleAtAll ==
    /\ NoActiveCampaign
    /\ \A i \in DOMAIN categoryDiscounts :
           categoryDiscounts[i].category # ResCategory
    /\ \A i \in DOMAIN discounts : discounts[i].product # ResProduct
    /\ \/ prices[res.price_id].discount = NULL
       \/ prices[res.price_id].discount = <<0>>

\* C4: a tier with no rule at any level resolves to amount 0, no source, no
\* name, has_discount false, and percentaje_discount and price_old are null.
C4_NoDiscountBaseline ==
    (res.status # "idle" /\ NoRuleAtAll) =>
        /\ Returned
        /\ res.discount_amount = 0
        /\ res.discount_source = "none"
        /\ res.discount_name = NULL
        /\ res.has_discount = FALSE
        /\ has_discount(res) = FALSE
        /\ percentaje_discount(res) = NULL
        /\ price_old(res.price_id, res) = NULL

\* such a tier, with an inline discount of zero and inactive campaigns
\* stored, was resolved
C4_Witness ==
    /\ res.status # "idle"
    /\ NoRuleAtAll
    /\ prices[res.price_id].discount = <<0>>
    /\ res.discount_source = "none"

----------------------------------------------------------------------------
(* C5 *)

\* C5: a second call on the same tier at the same instant, over the same
\* stored rows, returns what the first returned: same amount, percentage,
\* source, name and winning rule.
C5_Deterministic ==
    [][(/\ res.status # "idle"
        /\ res'.status # "idle"
        /\ res.now_first = res.now_last
        /\ res'.price_id = res.price_id
        /\ res'.now_first = res.now_first
        /\ res'.now_last = res.now_last
        /\ catalog' = catalog)
       => /\ res'.status = res.status
          /\ res.status = "ok" =>
                /\ res'.discount_amount = res.discount_amount
                /\ res'.discount_percentage = res.discount_percentage
                /\ res'.discount_source = res.discount_source
                /\ res'.discount_name = res.discount_name
                /\ res'.has_discount = res.has_discount
                /\ res'.discount_object = res.discount_object]_vars

----------------------------------------------------------------------------
(* C6 *)

\* C6: the campaign the resolver tests is, among the campaigns flagged active
\* whose window holds the instant of the call, one of highest priority, and
\* among those tied on priority one of latest start_date.
C6_TopCampaignTested ==
    (res.status # "idle" /\ AtOneInstant) =>
        LET act == {c \in CampaignIds :
                       campaign_is_currently_active(campaigns[c], res.now_first)}
        IN  IF act = {} THEN res.active_campaign = NULL
            ELSE /\ res.active_campaign # NULL
                 /\ res.active_campaign[1] \in act
                 /\ \A d \in act :
                      LET c == campaigns[res.active_campaign[1]]
                      IN  \/ campaigns[d].priority < c.priority
                          \/ /\ campaigns[d].priority = c.priority
                             /\ campaigns[d].start_date <= c.start_date

----------------------------------------------------------------------------
(* C7 *)

\* C7: a rule whose value is zero or negative never wins: a returned
\* resolution with has_discount names a rule of positive value, and
\* discount_amount is never negative.
C7_NonPositiveIsAbsent ==
    Returned =>
        /\ res.discount_amount >= 0
        /\ res.has_discount => WinningValue > 0

----------------------------------------------------------------------------
(* C8 *)

\* C8: resolving a tier whose price is 0 does not raise: a record comes back
\* and its discount_percentage is 0.
C8_ZeroPriceReturns ==
    (res.status # "idle" /\ ResPrice = 0) =>
        /\ Returned
        /\ res.discount_percentage = 0

----------------------------------------------------------------------------
(* C9 *)

\* C9: when no campaign applies and some category discount of the product's
\* category is flagged active with a window that is absent or holds the
\* instant of the call, the resolution has source 'category' and names the
\* first such row.
C9_CategoryFirstInForce ==
    (/\ Returned
     /\ AtOneInstant
     /\ CampaignsInForce(ResProduct, res.now_first) = {}
     /\ CategoryDiscountsInForce(ResProduct, res.now_first) # {})
    => /\ res.discount_source = "category"
       /\ res.discount_object[2]
              \in CategoryDiscountsInForce(ResProduct, res.now_first)
       /\ \A i \in CategoryDiscountsInForce(ResProduct, res.now_first) :
              res.discount_object[2] <= i

----------------------------------------------------------------------------
(* C10 *)

\* C10: when no campaign and no category discount applies and some discount
\* of the product has a positive value and a window that is absent or holds
\* the instant of the call, the resolution has source 'product' and names
\* such a row.
C10_ProductFirstInForce ==
    (/\ Returned
     /\ AtOneInstant
     /\ CampaignsInForce(ResProduct, res.now_first) = {}
     /\ CategoryDiscountsInForce(ResProduct, res.now_first) = {}
     /\ ProductDiscountsInForce(ResProduct, res.now_first) # {})
    => /\ res.discount_source = "product"
       /\ res.discount_object[2]
              \in ProductDiscountsInForce(ResProduct, res.now_first)

----------------------------------------------------------------------------
(* C11 *)

\* C11: for every returned resolution the derived operations agree with the
\* resolved amount: has_discount is true exactly when discount_amount > 0,
\* price_old is the raw price exactly when discount_amount > 0 and null
\* otherwise, and price_new is price - discount_amount.
C11_DerivedAgree ==
    Returned =>
        /\ has_discount(res) <=> res.discount_amount > 0
        /\ price_old(res.price_id, res) =
               (IF res.discount_amount > 0 THEN <<ResPrice>> ELSE NULL)
        /\ price_new(res.price_id, res) =
               Hundred * ResPrice - res.discount_amount

----------------------------------------------------------------------------
(* C12 *)

\* the last call got as far as a rule (it built, or was building, its dict)
RuleReached == res.status # "idle" /\ res.discount_object # NULL

----------------------------------------------------------------------------
(* C18 *)

\* the window of a row with nullable dates is inverted: both dates are set
\* and the expiration date is earlier than the start date
InvertedWindow(row) ==
    /\ row.start_date # NULL
    /\ row.expiration_date # NULL
    /\ row.expiration_date[1] < row.start_date[1]

\* C18: a campaign, category discount or product discount whose
\* expiration_date is earlier than its start_date never wins a resolution,
\* whatever the instants of the call.
C18_InvertedWindowNeverWins ==
    RuleReached =>
        /\ res.discount_object[1] = "campaign" =>
               campaigns[res.discount_object[2]].start_date
                   <= campaigns[res.discount_object[2]].expiration_date
        /\ res.discount_object[1] = "category_discount" =>
               ~InvertedWindow(categoryDiscounts[res.discount_object[2]])
        /\ res.discount_object[1] = "discount" =>
               ~InvertedWindow(discounts[res.discount_object[2]])

\* the category discount the query hands back for the tier's category is
\* flagged active with an inverted window, the clock has passed its start
\* date, and the resolution came from another level
C18_Witness ==
    /\ Returned
    /\ \E cd \in CategoryDiscountQueryFirst(ResCategory) :
           /\ cd # NULL
           /\ InvertedWindow(categoryDiscounts[cd[1]])
           /\ categoryDiscounts[cd[1]].start_date[1] <= res.now_first
    /\ CampaignsInForce(ResProduct, res.now_first) = {}
    /\ res.discount_source # "category"

----------------------------------------------------------------------------
(* Vocabulary of the price-range properties *)

\* resolve_price_range has returned a summary (not None, no exception)
Summarized == frame.pc = "done"


\* the two dicts the schemas build from the locals of a finished call
Summaries ==
    {ProductBaseOut_price_range(frame), ProductBaseListOut_price_range(frame)}

----------------------------------------------------------------------------
(* C13 *)

----------------------------------------------------------------------------
(* C14 *)

\* the resolutions tier k can get when every clock reading gives instant t
ResolveAt(k, t) ==
    {get_best_discount_for_price(k, [i \in 1..5 |-> t], ac, pd) :
        ac \in CampaignQueryFirst(t, t),
        pd \in ProductDiscountQueryFirst(prices[k].product)}

\* the tiers of the summarized product that have a discount at instant t,
\* each with its resolution
DiscountedAt(t) ==
    {x \in UNION {{<<k, info>> : info \in ResolveAt(k, t)} :
                     k \in TiersOf(frame.product)} :
        x[2].status = "ok" /\ has_discount(x[2])}

\* raw price - discounted price of those tiers
SavingsAt(t) ==
    {Hundred * prices[x[1]].price - price_new(x[1], x[2]) :
        x \in DiscountedAt(t)}

\* the instants the summarizing call read its clock at, first to last
SummaryInstants == frame.now_first..frame.now_last

\* C14: a returned summary agrees with some instant of its computation on
\* the savings: when at least one tier has a discount then, max_savings and
\* min_savings are the greatest and the least of (raw price - discounted
\* price) over the tiers that have a discount, and they are equal when
\* exactly one tier has one.
C14_SavingsOverDiscounted ==
    Summarized =>
        \E t \in SummaryInstants :
            DiscountedAt(t) # {} =>
                \A out \in Summaries :
                    /\ "max_savings" \in DOMAIN out
                    /\ out.max_savings = Str(MaxOf(SavingsAt(t)))
                    /\ out.min_savings = Str(MinOf(SavingsAt(t)))
                    /\ Cardinality(DiscountedAt(t)) = 1 =>
                           out.min_savings = out.max_savings

----------------------------------------------------------------------------
(* C15 *)

\* the positions, in the order the tiers were fetched, of the tiers that
\* have a discount at instant t
DiscountedPositionsAt(t) ==
    {i \in DOMAIN frame.prices :
        \E x \in DiscountedAt(t) : x[1] = frame.prices[i]}

\* the resolutions at instant t of the first of them
FirstDiscountedAt(t) ==
    {x[2] : x \in {y \in DiscountedAt(t) :
                      y[1] = frame.prices[MinOf(DiscountedPositionsAt(t))]}}

\* C15: a returned summary agrees with some instant of its computation on
\* the representative rule: when at least one tier has a discount then,
\* campaign_name is the discount_name of the first tier in fetched order
\* (ascending quantity) that has a discount, and discount_expires_at is the
\* expiration date of that tier's winning rule, or null when it has none.
C15_FirstDiscountedTier ==
    Summarized =>
        \E t \in SummaryInstants :
            DiscountedAt(t) # {} =>
                \E info \in FirstDiscountedAt(t) :
                    \A out \in Summaries :
                        /\ "campaign_name" \in DOMAIN out
                        /\ out.campaign_name = info.discount_name
                        /\ out.discount_expires_at =
                               (IF expiration_date_of(info.discount_object) = NULL
                                THEN NULL
                                ELSE IsoFormat(expiration_date_of(
                                         info.discount_object)[1]))

----------------------------------------------------------------------------
(* C16 *)

\* C16: the fields of a returned summary are mutually consistent, as they
\* are when every tier is resolved at one instant: has_discount is false
\* only if min_discounted = min and max_discounted = max, and has_discount is
\* true only if a saving is reported and the greatest reported saving is
\* above 0; also when a window opens or closes during the computation.
C16_SummaryAtOneInstant ==
    Summarized =>
        \A out \in Summaries :
            /\ ~out.has_discount =>
                   /\ out.min_discounted = out.min
                   /\ out.max_discounted = out.max
            /\ out.has_discount =>
                   /\ "max_savings" \in DOMAIN out
                   /\ out.max_savings[2] > 0

----------------------------------------------------------------------------
(* C19 *)

\* the plural the fixed table gives each unit it has
TablePlurals ==
    {<<"Unidad", "Unidades">>, <<"Docena", "Docenas">>, <<"Caja", "Cajas">>,
     <<"Paquete", "Paquetes">>, <<"Kilogramo", "Kilogramos">>,
     <<"Metro", "Metros">>, <<"Litro", "Litros">>}

\* label is what the claim gives for a tier of this unit and quantity
RightLabel(unit, quantity, label) ==
    /\ label = unit <=> quantity = 1
    /\ quantity # 1 =>
           IF \E x \in TablePlurals : x[1] = unit
           THEN <<unit, label>> \in TablePlurals
           ELSE label = unit \o "s"

\* C19: the label get_unit_display_smart gives for the tiers a summary
\* reports is the unit's singular name exactly when the quantity is 1, and
\* otherwise the plural of the fixed table, or the unit followed by 's' when
\* the table does not have the unit.
C19_UnitLabel ==
    Summarized =>
        \A out \in Summaries :
            /\ RightLabel(out.min_unit, out.min_cantity, out.min_unit_smart)
            /\ RightLabel(out.max_unit, out.max_cantity, out.max_unit_smart)

\* a tier of quantity 2 in a unit the table does not have was labelled with
\* the unit followed by 's'
C19_Witness ==
    /\ Summarized
    /\ \A out \in Summaries :
           /\ out.min_unit = "Par"
           /\ out.min_cantity = 2
           /\ out.min_unit_smart = "Pars"

----------------------------------------------------------------------------
(* Login behind rate_limit(max_attempts=5, window=300, block_duration=900). *)
(* One client identifier (one IP) sends its requests through Workers, which *)
(* may run at the same time; one step is one cache operation of the wrapper *)
(* or the call of login.  In this specification the clock counts seconds.   *)

max_attempts == 5

window == 300

block_duration == 900

\* the clock is followed this far
MaxSeconds == 1200

\* a cache entry <<..., expires>> is handed back until its expiry has passed
Alive(entry) == entry # NULL /\ now <= entry[Len(entry)]

\* the status login answers with when it returns (200, or 401 for invalid
\* credentials and for an inactive user, which authenticate_user turns into
\* None), and 500 for an exception that leaves it
LoginOutcomes == {200, 401, 500}

\* history.served counts the attempts of the client that reached login and
\* were answered less than window seconds ago, up to max_attempts: the clock
\* advances a window at a time, so these are the answers since it last did
CountUp(n) == IF n < max_attempts THEN n + 1 ELSE n

\* the wrapper of worker w is done: the client gets status
Answer(w, status) ==
    /\ requests' = [requests EXCEPT ![w] =
           [pc |-> "idle", status |-> status,
            prior |-> requests[w].prior, barred |-> requests[w].barred]]
    /\ history' =
           [served |-> IF status = 429 THEN history.served
                       ELSE CountUp(history.served),
            rejected |-> IF /\ status = 429
                            /\ requests[w].prior >= max_attempts
                            /\ ~requests[w].barred
                         THEN <<now>> ELSE history.rejected]

\* a request of the client reaches worker w; prior and barred note what the
\* client had been answered by then
RequestLogin(w) ==
    /\ requests[w].pc = "idle"
    /\ requests' = [requests EXCEPT ![w] =
           [pc |-> "check_blocked", status |-> 0,
            prior |-> history.served,
            barred |-> /\ history.rejected # NULL
                       /\ now - history.rejected[1] < block_duration]]
    /\ UNCHANGED <<now, catalog, res, frame, limiter, history, caching,
                   accounts>>

\* if cache.get(block_key): raise HttpError(429, ...)
CheckBlocked(w) ==
    /\ requests[w].pc = "check_blocked"
    /\ IF Alive(limiter.blocked)
       THEN Answer(w, 429)
       ELSE /\ requests' = [requests EXCEPT ![w].pc = "get_attempts"]
            /\ UNCHANGED history
    /\ UNCHANGED <<now, catalog, res, frame, limiter, caching, accounts>>

\* attempts = cache.get(cache_key, 0) and the test attempts >= max_attempts
GetAttempts(w) ==
    /\ requests[w].pc = "get_attempts"
    /\ LET attempts == IF Alive(limiter.attempts) THEN limiter.attempts[1] ELSE 0
       IN  requests' = [requests EXCEPT ![w] =
               [pc |-> IF attempts >= max_attempts
                       THEN "set_blocked" ELSE "set_attempts",
                status |-> 0, prior |-> requests[w].prior,
                barred |-> requests[w].barred, attempts |-> attempts]]
    /\ UNCHANGED <<now, catalog, res, frame, limiter, history, caching,
                   accounts>>

\* cache.set(block_key, True, block_duration)
SetBlocked(w) ==
    /\ requests[w].pc = "set_blocked"
    /\ limiter' = [limiter EXCEPT !.blocked = <<now + block_duration>>]
    /\ requests' = [requests EXCEPT ![w].pc = "delete_on_block"]
    /\ UNCHANGED <<now, catalog, res, frame, history, caching, accounts>>

\* cache.delete(cache_key); raise HttpError(429, ...)
DeleteOnBlock(w) ==
    /\ requests[w].pc = "delete_on_block"
    /\ limiter' = [limiter EXCEPT !.attempts = NULL]
    /\ Answer(w, 429)
    /\ UNCHANGED <<now, catalog, res, frame, caching, accounts>>

\* cache.set(cache_key, attempts + 1, window)
SetAttempts(w) ==
    /\ requests[w].pc = "set_attempts"
    /\ limiter' = [limiter EXCEPT
           !.attempts = <<requests[w].attempts + 1, now + window>>]
    /\ requests' = [requests EXCEPT ![w].pc = "login"]
    /\ UNCHANGED <<now, catalog, res, frame, history, caching, accounts>>

\* result = func(request, ...): login returns its status, or an exception
\* leaves it and the wrapper
CallLogin(w) ==
    /\ requests[w].pc = "login"
    /\ \E outcome \in LoginOutcomes :
           IF outcome = 500
           THEN Answer(w, 500)
           ELSE /\ requests' = [requests EXCEPT
                       ![w].pc = "delete_attempts", ![w].status = outcome]
                /\ UNCHANGED history
    /\ UNCHANGED <<now, catalog, res, frame, limiter, caching, accounts>>

\* cache.delete(cache_key); return result
DeleteAttempts(w) ==
    /\ requests[w].pc = "delete_attempts"
    /\ limiter' = [limiter EXCEPT !.attempts = NULL]
    /\ Answer(w, requests[w].status)
    /\ UNCHANGED <<now, catalog, res, frame, caching, accounts>>

\* time passes, a window at a time
ClockAdvance ==
    /\ now + window <= MaxSeconds
    /\ now' = now + window
    /\ history' = [history EXCEPT !.served = 0]
    /\ UNCHANGED <<catalog, res, frame, limiter, requests, caching,
                   accounts>>

InitLogin ==
    /\ now = 0
    /\ products = ProductRows
    /\ campaigns = NoCampaigns
    /\ categoryDiscounts = <<>>
    /\ discounts = <<>>
    /\ prices = <<OtherTier>>
    /\ res = NoRes
    /\ frame = NoFrame
    /\ LoginIdle
    /\ CacheIdle
    /\ AccountsIdle

NextLogin ==
    \/ ClockAdvance
    \/ \E w \in Workers :
           \/ RequestLogin(w)
           \/ CheckBlocked(w)
           \/ GetAttempts(w)
           \/ SetBlocked(w)
           \/ DeleteOnBlock(w)
           \/ SetAttempts(w)
           \/ CallLogin(w)
           \/ DeleteAttempts(w)

SpecLogin == InitLogin /\ [][NextLogin]_vars

----------------------------------------------------------------------------
(* C20 *)

\* C20: a login request that arrives after the client has had max_attempts
\* attempts answered within the last window (failed ones included) is
\* answered 429, and so is every request that arrives within block_duration
\* of that rejection.
C20_LoginRateLimited ==
    \A w \in Workers :
        (requests[w].pc = "idle" /\ requests[w].status \notin {0, 429}) =>
            /\ requests[w].prior < max_attempts
            /\ ~requests[w].barred


----------------------------------------------------------------------------
(* The product cache of ProductBaseService and the receivers that clear it.
   Entries are followed within their timeout. *)

\* the values of ProductBase.slug, unique among the products
Slugs == {<<"slug", n>> : n \in 1..3}

\* the rows of Price, of Discount and of CategoryDiscount are followed up to
\* this many per table
MaxRows == 1

\* this many cached reads and this many writes are followed
MaxReads == 2

MaxWrites == 2

\* no write has completed since the last step of a read
AfterRead == [pc |-> "idle", writes |-> writer.writes]

\* _get_cache_key('products_list')
products_list_key == <<"products_list">>

\* _get_cache_key('product_detail', id=product_id)
product_detail_key(product_id) == <<"product_detail", product_id>>

\* _get_cache_key('product_slug', slug=slug)
product_slug_key(slug) == <<"product_slug", slug>>

\* _get_cache_key('products_category', cat=category_id)
products_category_key(category_id) == <<"products_category", category_id>>

\* the instance that .get hands back and cache.set pickles
Snapshot(rows, id) ==
    [id |-> id, slug |-> rows[id].slug, category_id |-> rows[id].category_id]

\* .filter(published=True)
Published(rows) == {p \in DOMAIN rows : rows[p].published}

\* cache.set(key, value, timeout)
cache_set(c, key, value) ==
    [k \in DOMAIN c \cup {key} |-> IF k = key THEN value ELSE c[k]]

\* cache.delete(key), for each of keys
cache_delete(c, keys) == [k \in DOMAIN c \ keys |-> c[k]]

\* the published products a miss on key finds in the database
Matching(key) ==
    CASE key[1] = "product_detail" -> {key[2]} \cap Published(products)
      [] key[1] = "product_slug" ->
             {p \in Published(products) : products[p].slug = key[2]}
      [] key[1] = "products_category" ->
             {p \in Published(products) : products[p].category_id = key[2]}
      [] OTHER -> Published(products)

\* .get(...) raises DoesNotExist
DoesNotExist(key) ==
    key[1] \in {"product_detail", "product_slug"} /\ Matching(key) = {}

\* what a miss on key reads from the database: the instance, or the ids
Query(key) ==
    IF key[1] \in {"product_detail", "product_slug"}
    THEN Snapshot(products, CHOOSE p \in Matching(key) : TRUE)
    ELSE Matching(key)

\* what a hit on key hands back: the cached instance, or
\* get_optimized_queryset().filter(id__in=cached_ids)
Served(key) ==
    IF key[1] \in {"product_detail", "product_slug"}
    THEN cache[key]
    ELSE cache[key] \cap DOMAIN products

\* a service method up to its return, or up to its cache.set when cache.get
\* found nothing and the database did
CachedRead(key) ==
    /\ reader.pc # "fetched"
    /\ reader.reads < MaxReads
    /\ reader' =
           [pc |-> IF key \in DOMAIN cache \/ DoesNotExist(key)
                   THEN "returned" ELSE "fetched",
            key |-> key,
            value |-> IF key \in DOMAIN cache THEN Served(key)
                      ELSE IF DoesNotExist(key) THEN "DoesNotExist"
                      ELSE Query(key),
            reads |-> reader.reads + 1]
    /\ writer' = AfterRead
    /\ UNCHANGED <<now, catalog, res, frame, login, cache, accounts>>

list_products == CachedRead(products_list_key)

get_product_by_id(product_id) == CachedRead(product_detail_key(product_id))

get_product_by_slug(slug) == CachedRead(product_slug_key(slug))

get_products_by_category(category_id) ==
    CachedRead(products_category_key(category_id))

\* cache.set(cache_key, product, CACHE_DETAIL), or
\* cache.set(cache_key, product_ids, CACHE_LIST), and the return
SetFetched ==
    /\ reader.pc = "fetched"
    /\ cache' = cache_set(cache, reader.key, reader.value)
    /\ reader' = [reader EXCEPT !.pc = "returned"]
    /\ writer' = AfterRead
    /\ UNCHANGED <<now, catalog, res, frame, login, accounts>>

\* invalidate_product_cache(product_id) against the rows of ProductBase as the
\* write left them
invalidate_product_cache(rows, product_id) ==
    cache_delete(cache,
        {product_detail_key(product_id), products_list_key}
        \cup (IF product_id \in DOMAIN rows
              THEN {product_slug_key(rows[product_id].slug),
                    products_category_key(rows[product_id].category_id)}
              ELSE {}))

\* the write of a row of model is over; affected are the products it is about
Wrote(model, affected) ==
    /\ writer.writes < MaxWrites
    /\ writer' = [pc |-> "done", model |-> model, affected |-> affected,
                  writes |-> writer.writes + 1]

\* the sequence s without its element i
Without(s, i) == SubSeq(s, 1, i - 1) \o SubSeq(s, i + 1, Len(s))

\* ProductBase.save() of a new or a changed product, and post_save
SaveProduct(p) ==
    \E slug \in Slugs, category_id \in Categories, published \in BOOLEAN :
        /\ \A q \in DOMAIN products \ {p} : products[q].slug # slug
        /\ LET row == [category_id |-> category_id, slug |-> slug,
                       published |-> published]
               rows == [q \in DOMAIN products \cup {p} |->
                           IF q = p THEN row ELSE products[q]]
           IN  /\ products' = rows
               /\ cache' = invalidate_product_cache(rows, p)
        /\ Wrote("ProductBase", {p})
        /\ UNCHANGED <<now, campaigns, categoryDiscounts, discounts, prices,
                       res, frame, login, reader, accounts>>

\* ProductBase.delete(): the rows of Price and of Discount go with it
\* (on_delete=CASCADE), then post_delete
DeleteProduct(p) ==
    /\ p \in DOMAIN products
    /\ LET rows == [q \in DOMAIN products \ {p} |-> products[q]]
       IN  /\ products' = rows
           /\ cache' = invalidate_product_cache(rows, p)
    /\ prices' = SelectSeq(prices, LAMBDA row : row.product # p)
    /\ discounts' = SelectSeq(discounts, LAMBDA row : row.product # p)
    /\ Wrote("ProductBase", {p})
    /\ UNCHANGED <<now, campaigns, categoryDiscounts, res, frame, login,
                   reader, accounts>>

\* Price.save() of a new tier or of a changed one, and post_save
SavePrice ==
    /\ \E p \in DOMAIN products, price \in {100} :
           /\ \/ /\ Len(prices) < MaxRows
                 /\ prices' = Append(prices, Price(p, price, NULL, "Amount", 1))
              \/ \E i \in DOMAIN prices :
                     /\ prices[i].product = p
                     /\ prices' = [prices EXCEPT ![i].price = price]
           /\ cache' = invalidate_product_cache(products, p)
           /\ Wrote("Price", {p})
    /\ UNCHANGED <<now, products, campaigns, categoryDiscounts, discounts,
                   res, frame, login, reader, accounts>>

\* Price.delete(): no receiver listens
DeletePrice ==
    /\ \E i \in DOMAIN prices :
           /\ prices' = Without(prices, i)
           /\ Wrote("Price", {prices[i].product})
    /\ UNCHANGED <<now, products, campaigns, categoryDiscounts, discounts,
                   res, frame, login, cache, reader, accounts>>

\* Discount.save() of a new rule or of a changed one, and post_save
SaveDiscount ==
    /\ \E p \in DOMAIN products, discount \in {10} :
           /\ \/ /\ Len(discounts) < MaxRows
                 /\ discounts' = Append(discounts,
                        Discount(p, discount, "Percentage", NULL, NULL))
              \/ \E i \in DOMAIN discounts :
                     /\ discounts[i].product = p
                     /\ discounts' = [discounts EXCEPT ![i].discount = discount]
           /\ cache' = invalidate_product_cache(products, p)
           /\ Wrote("Discount", {p})
    /\ UNCHANGED <<now, products, campaigns, categoryDiscounts, prices,
                   res, frame, login, reader, accounts>>

\* Discount.delete(): no receiver listens
DeleteDiscount ==
    /\ \E i \in DOMAIN discounts :
           /\ discounts' = Without(discounts, i)
           /\ Wrote("Discount", {discounts[i].product})
    /\ UNCHANGED <<now, products, campaigns, categoryDiscounts, prices,
                   res, frame, login, cache, reader, accounts>>

\* the products a rule on category is about
InCategory(category) ==
    {p \in DOMAIN products : products[p].category_id = category}

\* CategoryDiscount.save() of a new rule or of a changed one: no receiver
\* listens
SaveCategoryDiscount ==
    /\ \E c \in Categories, discount \in {10} :
           /\ \/ /\ Len(categoryDiscounts) < MaxRows
                 /\ categoryDiscounts' = Append(categoryDiscounts,
                        CategoryDiscount(c, TRUE, NULL, NULL, discount,
                                         "Percentage"))
              \/ \E i \in DOMAIN categoryDiscounts :
                     /\ categoryDiscounts[i].category = c
                     /\ categoryDiscounts' =
                            [categoryDiscounts EXCEPT ![i].discount = discount]
           /\ Wrote("CategoryDiscount", InCategory(c))
    /\ UNCHANGED <<now, products, campaigns, discounts, prices,
                   res, frame, login, cache, reader, accounts>>

\* CategoryDiscount.delete(): no receiver listens
DeleteCategoryDiscount ==
    /\ \E i \in DOMAIN categoryDiscounts :
           /\ categoryDiscounts' = Without(categoryDiscounts, i)
           /\ Wrote("CategoryDiscount", InCategory(categoryDiscounts[i].category))
    /\ UNCHANGED <<now, products, campaigns, discounts, prices,
                   res, frame, login, cache, reader, accounts>>

\* DiscountCampaign.save() of a changed campaign: no receiver listens
SaveCampaign ==
    /\ \E i \in DOMAIN campaigns, priority \in 0..MaxPriority :
           campaigns' = [campaigns EXCEPT ![i].priority = priority]
    /\ Wrote("DiscountCampaign", DOMAIN products)
    /\ UNCHANGED <<now, products, categoryDiscounts, discounts, prices,
                   res, frame, login, cache, reader, accounts>>

\* the admin actions activate_campaigns and deactivate_campaigns:
\* queryset.update(is_active=...), which sends no signal
activate_campaigns ==
    /\ \E queryset \in SUBSET DOMAIN campaigns, is_active \in BOOLEAN :
           /\ queryset # {}
           /\ campaigns' = [i \in DOMAIN campaigns |->
                  IF i \in queryset
                  THEN [campaigns[i] EXCEPT !.is_active = is_active]
                  ELSE campaigns[i]]
    /\ Wrote("DiscountCampaign", DOMAIN products)
    /\ UNCHANGED <<now, products, categoryDiscounts, discounts, prices,
                   res, frame, login, cache, reader, accounts>>

InitCache ==
    /\ now = 0
    /\ products = ProductRows
    /\ campaigns = NoCampaigns
    /\ categoryDiscounts = <<>>
    /\ discounts = <<>>
    /\ prices = <<>>
    /\ res = NoRes
    /\ frame = NoFrame
    /\ LoginIdle
    /\ CacheIdle
    /\ AccountsIdle

NextCache ==
    \/ list_products
    \/ \E product_id \in Products : get_product_by_id(product_id)
    \/ \E slug \in Slugs : get_product_by_slug(slug)
    \/ \E category_id \in Categories : get_products_by_category(category_id)
    \/ SetFetched
    \/ \E p \in Products : SaveProduct(p)
    \/ \E p \in Products : DeleteProduct(p)
    \/ SavePrice
    \/ DeletePrice
    \/ SaveDiscount
    \/ DeleteDiscount
    \/ SaveCategoryDiscount
    \/ DeleteCategoryDiscount
    \/ SaveCampaign
    \/ activate_campaigns

SpecCache == InitCache /\ [][NextCache]_vars

----------------------------------------------------------------------------
(* C17 *)

\* the cache entry under key covers product p: it is p's detail entry, it is
\* the list of all products, it is named after p's slug or category, or the
\* instance or the ids it holds are p's
Covers(key, p) ==
    \/ key = products_list_key
    \/ key = product_detail_key(p)
    \/ /\ key[1] = "product_slug"
       /\ \/ cache[key].id = p
          \/ p \in DOMAIN products /\ key[2] = products[p].slug
    \/ /\ key[1] = "products_category"
       /\ \/ p \in cache[key]
          \/ p \in DOMAIN products /\ key[2] = products[p].category_id

\* C17: when a create, update or delete of a ProductBase, Price, Discount,
\* CategoryDiscount or DiscountCampaign has completed, the cache holds no
\* product_detail, product_slug, products_category or products_list entry
\* that covers a product the write is about (every product, for a campaign).
C17_WriteInvalidates ==
    writer.pc = "done" =>
        \A p \in writer.affected :
            \A key \in DOMAIN cache : ~Covers(key, p)


----------------------------------------------------------------------------
(* C27 *)

\* the keys under which get_product_by_id and get_product_by_slug look
\* product p up, as the rows of ProductBase stand
LookupKeys(p) ==
    {product_detail_key(p)}
    \cup (IF p \in DOMAIN products
          THEN {product_slug_key(products[p].slug)} ELSE {})

\* C27: once no cached read is in flight and every save has run its
\* post_save invalidation, an entry the cache holds under a product's id or
\* slug is the product as last saved, so a read that starts now returns the
\* saved version.
C27_NoStaleSnapshot ==
    reader.pc # "fetched" =>
        \A p \in Products :
            \A key \in LookupKeys(p) \cap DOMAIN cache :
                /\ p \in Published(products)
                /\ cache[key] = Snapshot(products, p)


----------------------------------------------------------------------------
(* C28 *)

\* C28: right after the save or the delete of a product and its
\* invalidate_product_cache, get_product_by_slug returns the product from the
\* cache only under the slug it has now, and get_products_by_category serves
\* it from the cache only in the category it has now; a deleted product is
\* served under no slug and in no category.
C28_OldStateNotServed ==
    (writer.pc = "done" /\ writer.model = "ProductBase") =>
        \A p \in writer.affected :
            \A key \in DOMAIN cache :
                /\ (key[1] = "product_slug" /\ Served(key).id = p) =>
                       /\ p \in DOMAIN products
                       /\ products[p].slug = key[2]
                /\ (key[1] = "products_category" /\ p \in Served(key)) =>
                       products[p].category_id = key[2]


----------------------------------------------------------------------------
(* The delivery of one event to one active webhook, and its retries *)

\* if log.attempts >= 3: return False
max_webhook_attempts == 3

\* the HTTP sends of the event are followed up to this many
MaxSends == 5

\* send_webhook: requests.post, then WebhookLog.objects.create(...,
\* attempts=1) with success by the response, or with success=False when the
\* post raised
send_webhook(hooks, success) ==
    [logs |-> Append(hooks.logs, [attempts |-> 1, success |-> success]),
     sends |-> hooks.sends + 1]

\* trigger_event for the event: the first delivery
trigger_event ==
    /\ webhooks.logs = <<>>
    /\ \E success \in BOOLEAN : webhooks' = send_webhook(webhooks, success)
    /\ UNCHANGED <<now, catalog, res, frame, login, caching, auth>>

\* retry_failed_webhook(log_id) on a log that has attempts left: the event is
\* sent again, which writes a log of its own, and log.attempts += 1; log.save()
retry_failed_webhook(log_id) ==
    /\ log_id \in DOMAIN webhooks.logs
    /\ webhooks.logs[log_id].attempts < max_webhook_attempts
    /\ webhooks.sends < MaxSends
    /\ \E success \in BOOLEAN :
           LET sent == send_webhook(webhooks, success)
           IN  webhooks' = [sent EXCEPT !.logs[log_id].attempts = @ + 1]
    /\ UNCHANGED <<now, catalog, res, frame, login, caching, auth>>

InitHooks ==
    /\ now = 0
    /\ products = ProductRows
    /\ campaigns = NoCampaigns
    /\ categoryDiscounts = <<>>
    /\ discounts = <<>>
    /\ prices = <<OtherTier>>
    /\ res = NoRes
    /\ frame = NoFrame
    /\ LoginIdle
    /\ CacheIdle
    /\ AccountsIdle

NextHooks ==
    \/ trigger_event
    \/ \E log_id \in 1..MaxSends : retry_failed_webhook(log_id)

SpecHooks == InitHooks /\ [][NextHooks]_vars

----------------------------------------------------------------------------
(* C24 *)

\* C24: whatever retry_failed_webhook calls are made on the logs of one event
\* delivery whose sends all failed, the event has been sent to the webhook
\* at most 3 times in total.
C24_AtMostThreeSends ==
    (\A i \in DOMAIN webhooks.logs : ~webhooks.logs[i].success) =>
        webhooks.sends <= max_webhook_attempts


----------------------------------------------------------------------------
(* Tokens: login, two-factor login, JWTAuth, refresh, logout and password
   reset for one account.  now counts whole seconds, as the iat, exp and lpr
   of a token do; tokens are followed within their lifetime. *)

\* settings.ACCESS_TOKEN_LIFETIME and settings.REFRESH_TOKEN_LIFETIME, and the
\* lifetimes send_action_email gives a verify and a reset token, in seconds
ACCESS_LIFETIME == 900

REFRESH_LIFETIME == 604800

VERIFY_LIFETIME == 86400

RESET_LIFETIME == 3600

\* the clock is followed from second 1 to this second
MaxAuthTime == 2

\* this many requests are followed
MaxRequests == 4

\* payload.get(field) is value
Holds(payload, field, value) ==
    field \in DOMAIN payload /\ payload[field] = value

\* _create_token: the token is its signed payload, so two tokens with equal
\* payloads are one string
create_token(token_type, lifetime) ==
    [user_id |-> 1, exp |-> now + lifetime, iat |-> now,
     token_type |-> token_type]

\* generate_tokens
generate_tokens ==
    [access |-> create_token("access", ACCESS_LIFETIME),
     refresh |-> create_token("refresh", REFRESH_LIFETIME)]

\* the two tokens of a pair
PairOf(tokens) == {tokens.access, tokens.refresh}

\* int(user.last_password_reset.timestamp()) if user.last_password_reset
\* else 0
lpr_of(user) ==
    IF user.last_password_reset = NULL THEN 0 ELSE user.last_password_reset[1]

\* _create_action_token
create_action_token(action_type, lifetime) ==
    [user_id |-> 1, exp |-> now + lifetime, iat |-> now,
     action |-> action_type, lpr |-> lpr_of(auth.user)]

\* jwt.decode(token, SECRET_KEY, algorithms=['HS256']) returns the payload:
\* the tokens presented carry the server's signature and have not expired
Decodes(token) == now < token.exp

\* JWTAuth.authenticate returns the user
authenticate(token) ==
    /\ Decodes(token)
    /\ "user_id" \in DOMAIN token
    /\ token \notin auth.blacklist
    /\ auth.user.is_active

\* verify_token returns the payload
verify_token(token) == token \notin auth.blacklist /\ Decodes(token)

\* verify_action_token(token, action_type) returns the user
verify_action_token(token, action_type) ==
    /\ Decodes(token)
    /\ Holds(token, "action", action_type)
    /\ action_type = "reset" =>
           LET token_lpr == IF "lpr" \in DOMAIN token THEN token.lpr ELSE 0
           IN  ~(token_lpr < lpr_of(auth.user))

\* the reset tokens issued so far
ResetTokens == {t \in auth.issued : Holds(t, "action", "reset")}

\* how many pairs refresh_access_token has returned for token
Yields(token) ==
    IF token \in DOMAIN auth.yields THEN auth.yields[token] ELSE 0

\* a request is taken up
Serve == auth.served < MaxRequests

\* the codes a client may present: the TOTP code of the moment, a backup
\* code, or anything else
Codes == {"TOTP", "BACKUP", "WRONG"}

\* verify_2fa_code(user, code) returns True
verify_2fa_code(code) ==
    /\ auth.user.is_enabled
    /\ code = "TOTP" \/ code \in auth.user.backup_codes

\* the account after verify_2fa_code: a backup code that was used is removed
After2FA(code) ==
    IF auth.user.is_enabled /\ code # "TOTP" /\ code \in auth.user.backup_codes
    THEN [auth.user EXCEPT !.backup_codes = @ \ {code}]
    ELSE auth.user

AuthFrame == UNCHANGED <<now, catalog, res, frame, login, caching, webhooks>>

\* POST /login with the account's email: authenticate_user, generate_tokens
password_login(password_ok) ==
    /\ Serve
    /\ auth' = [auth EXCEPT
           !.issued = IF password_ok THEN @ \cup PairOf(generate_tokens) ELSE @,
           !.last = [op |-> "login",
                     status |-> IF password_ok THEN 200 ELSE 401,
                     is_enabled |-> auth.user.is_enabled,
                     code_ok |-> FALSE],
           !.served = @ + 1]
    /\ AuthFrame

\* POST /login-2fa
login_with_2fa(password_ok, code) ==
    /\ Serve
    /\ LET has_2fa_enabled == auth.user.is_enabled
           passed == password_ok /\ (has_2fa_enabled => verify_2fa_code(code))
       IN  auth' = [auth EXCEPT
               !.user = IF password_ok THEN After2FA(code) ELSE @,
               !.issued = IF passed THEN @ \cup PairOf(generate_tokens) ELSE @,
               !.last = [op |-> "login_with_2fa",
                         status |-> IF passed THEN 200 ELSE 401,
                         is_enabled |-> has_2fa_enabled,
                         code_ok |-> verify_2fa_code(code)],
               !.served = @ + 1]
    /\ AuthFrame

\* POST /2fa/verify with the right code, and POST /2fa/disable with a code
\* verify_2fa_code accepts: the bearer token is one JWTAuth accepts
set_2fa(is_enabled) ==
    /\ Serve
    /\ \E bearer \in auth.issued : authenticate(bearer)
    /\ auth.user.is_enabled # is_enabled
    /\ auth' = [auth EXCEPT
           !.user.is_enabled = is_enabled,
           !.last = [op |-> "set_2fa"],
           !.served = @ + 1]
    /\ AuthFrame

\* a request to an endpoint with auth=jwt_auth, bearing token
Authenticate(token) ==
    /\ Serve
    /\ token \in auth.issued
    /\ auth' = [auth EXCEPT
           !.last = [op |-> "authenticate", token |-> token,
                     status |-> IF authenticate(token) THEN 200 ELSE 401,
                     barred |-> token \in auth.loggedout],
           !.served = @ + 1]
    /\ AuthFrame

\* refresh_access_token(token) in worker w, up to its user lookup:
\* verify_token raises and None is returned, or the payload is in hand
RefreshVerify(w, token) ==
    /\ Serve
    /\ token \in auth.issued
    /\ auth.procs[w].pc = "idle"
    /\ auth' = [auth EXCEPT
           !.procs[w] =
               IF verify_token(token)
               THEN [pc |-> "verified", token |-> token,
                     barred |-> token \in auth.loggedout,
                     prior |-> Yields(token)]
               ELSE [pc |-> "idle"],
           !.last = IF verify_token(token) THEN @
                    ELSE [op |-> "refresh", token |-> token, status |-> 401,
                          barred |-> token \in auth.loggedout,
                          prior |-> Yields(token)],
           !.served = @ + 1]
    /\ AuthFrame

\* logout_user(token): the row of TokenBlacklist is created, or an exception
\* is caught and False is returned
logout_user(blacklist, token, created) ==
    IF created THEN blacklist \cup {token} ELSE blacklist

\* UserService.logout_user(refresh_token_string) inside refresh_access_token,
\* whose result is not looked at
RefreshRevoke(w) ==
    /\ auth.procs[w].pc = "verified"
    /\ \E created \in BOOLEAN :
           auth' = [auth EXCEPT
               !.blacklist = logout_user(@, auth.procs[w].token, created),
               !.procs[w].pc = "revoked"]
    /\ AuthFrame

\* new_tokens = generate_tokens(user); return new_tokens
RefreshIssue(w) ==
    /\ auth.procs[w].pc = "revoked"
    /\ LET token == auth.procs[w].token
       IN  auth' = [auth EXCEPT
               !.issued = @ \cup PairOf(generate_tokens),
               !.yields = [t \in DOMAIN @ \cup {token} |->
                              IF t = token THEN Yields(token) + 1 ELSE @[t]],
               !.procs[w] = [pc |-> "idle"],
               !.last = [op |-> "refresh", token |-> token, status |-> 200,
                         barred |-> auth.procs[w].barred,
                         prior |-> auth.procs[w].prior]]
    /\ AuthFrame

\* POST /logout with a bearer token JWTAuth accepts and the pair access,
\* refresh in the body: logout_user on each, results not looked at, then 200
logout(access, refresh) ==
    /\ Serve
    /\ \E bearer \in auth.issued : authenticate(bearer)
    /\ {access, refresh} \subseteq auth.issued
    /\ Holds(access, "token_type", "access")
    /\ Holds(refresh, "token_type", "refresh")
    /\ \E created_access, created_refresh \in BOOLEAN :
           auth' = [auth EXCEPT
               !.blacklist = logout_user(
                                 logout_user(@, access, created_access),
                                 refresh, created_refresh),
               !.loggedout = @ \cup {access, refresh},
               !.last = [op |-> "logout"],
               !.served = @ + 1]
    /\ AuthFrame

\* POST /request-verification and POST /request-password-reset:
\* send_action_email(user, action) mails a token
send_action_email(action) ==
    /\ Serve
    /\ auth' = [auth EXCEPT
           !.issued = @ \cup
               {create_action_token(action,
                    IF action = "verify" THEN VERIFY_LIFETIME
                    ELSE RESET_LIFETIME)},
           !.last = [op |-> "send_action_email"],
           !.served = @ + 1]
    /\ AuthFrame

\* the password is set and last_password_reset = now(): the reset tokens
\* issued so far were issued before this change
PasswordChanged(user) == [user EXCEPT !.last_password_reset = <<now>>]

\* POST /confirm-password-reset with token and a password that passes
\* validate_password_strength
confirm_password_reset(token) ==
    /\ Serve
    /\ token \in auth.issued
    /\ LET ok == verify_action_token(token, "reset")
       IN  auth' = [auth EXCEPT
               !.user = IF ok THEN PasswordChanged(@) ELSE @,
               !.stale = IF ok THEN @ \cup ResetTokens ELSE @,
               !.issued = IF ok THEN @ \cup PairOf(generate_tokens) ELSE @,
               !.last = [op |-> "confirm_password_reset", token |-> token,
                         status |-> IF ok THEN 200 ELSE 400,
                         stale |-> token \in auth.stale],
               !.served = @ + 1]
    /\ AuthFrame

\* POST /change-password with the current password and a bearer token JWTAuth
\* accepts
change_password ==
    /\ Serve
    /\ \E bearer \in auth.issued : authenticate(bearer)
    /\ auth' = [auth EXCEPT
           !.user = PasswordChanged(@),
           !.stale = @ \cup ResetTokens,
           !.last = [op |-> "change_password"],
           !.served = @ + 1]
    /\ AuthFrame

\* a second passes
AuthTick ==
    /\ now < MaxAuthTime
    /\ now' = now + 1
    /\ UNCHANGED <<catalog, res, frame, login, caching, accounts>>

InitAuth ==
    /\ now = 1
    /\ products = ProductRows
    /\ campaigns = NoCampaigns
    /\ categoryDiscounts = <<>>
    /\ discounts = <<>>
    /\ prices = <<OtherTier>>
    /\ res = NoRes
    /\ frame = NoFrame
    /\ LoginIdle
    /\ CacheIdle
    /\ AccountsIdle

NextAuth ==
    \/ AuthTick
    \/ \E password_ok \in BOOLEAN : password_login(password_ok)
    \/ \E password_ok \in BOOLEAN, code \in Codes :
           login_with_2fa(password_ok, code)
    \/ \E is_enabled \in BOOLEAN : set_2fa(is_enabled)
    \/ \E token \in auth.issued : Authenticate(token)
    \/ \E w \in Workers, token \in auth.issued : RefreshVerify(w, token)
    \/ \E w \in Workers : RefreshRevoke(w)
    \/ \E w \in Workers : RefreshIssue(w)
    \/ \E access, refresh \in auth.issued : logout(access, refresh)
    \/ \E action \in {"verify", "reset"} : send_action_email(action)
    \/ \E token \in auth.issued : confirm_password_reset(token)
    \/ change_password

SpecAuth == InitAuth /\ [][NextAuth]_vars


----------------------------------------------------------------------------
(* C21 *)

\* C21: refresh_access_token returns a token pair for one refresh token at
\* most once, however the calls with that token interleave.
C21_RefreshSingleUse ==
    \A token \in DOMAIN auth.yields : auth.yields[token] <= 1


----------------------------------------------------------------------------
(* C22 *)

\* C22: a token of a pair for which POST /logout has answered success is not
\* accepted by a later request: JWTAuth.authenticate answers 401 for it and
\* refresh_access_token returns None for it, also when logout_user failed
\* internally.
C22_LoggedOutRejected ==
    (auth.last.op \in {"authenticate", "refresh"} /\ auth.last.barred) =>
        auth.last.status = 401


----------------------------------------------------------------------------
(* C23 *)

\* C23: a reset token issued before a password change that succeeded (by
\* confirm_password_reset or change_password) is no longer valid:
\* verify_action_token(token, 'reset') returns None for it.
C23_ResetTokenDiesWithChange ==
    \A token \in auth.stale : ~verify_action_token(token, "reset")


----------------------------------------------------------------------------
(* C25 *)

\* C25: JWTAuth.authenticate accepts a token only if it was issued with
\* token_type 'access', and refresh_access_token returns a pair only for a
\* token issued with token_type 'refresh'.
C25_TokenPurpose ==
    /\ (auth.last.op = "authenticate" /\ auth.last.status = 200) =>
           Holds(auth.last.token, "token_type", "access")
    /\ (auth.last.op = "refresh" /\ auth.last.status = 200) =>
           Holds(auth.last.token, "token_type", "refresh")

----------------------------------------------------------------------------
(* C26 *)

\* C26: when login or login_with_2fa answers 200 with a token pair for a user
\* whose TwoFactorAuth is enabled, the request carried a TOTP code valid at
\* that moment or a backup code not used before.
C26_TwoFactorEnforced ==
    (/\ auth.last.op \in {"login", "login_with_2fa"}
     /\ auth.last.status = 200
     /\ auth.last.is_enabled) => auth.last.code_ok

====
